---------------------------- MODULE Spec2Model ----------------------------
(***************************************************************************)
(* Model of the church-hub audio playback engine (audio/player.rs) and of  *)
(* the remote-control bridge's State Publisher (audio/websocket_client.rs).*)
(*                                                                         *)
(* Time is counted in units of 0.05 s.  Option<T> values are modelled as   *)
(* sets with at most one element: None == {} and Some(x) == {x}.  Sink     *)
(* gains are modelled in percent (a gain of 1.0 is 100).                   *)
(***************************************************************************)
EXTENDS Integers, Sequences, FiniteSets

(***************************************************************************)
(* Bounds of the model.                                                    *)
(***************************************************************************)
\* the wall clock runs from 0 to MaxTime
MaxTime == 2
\* the command channel holds at most MaxQueue commands in flight
MaxQueue == 1
\* the duration of the track whose duration the decoder knows
TrackLen == 2
\* stands for Duration::MAX (u64::MAX seconds): the largest f64 number of
\* seconds that Duration::from_secs_f64 converts without panicking
DurationMax == 9
\* the number of commands handed to the Engine Handle where they are logged
MaxSent == 4
\* the number of snapshots published where publications are recorded
MaxPubs == 3

None == {}
Some(x) == {x}
IsSome(o) == o # {}
Unwrap(o) == CHOOSE x \in o : TRUE

(***************************************************************************)
(* Inputs.                                                                 *)
(***************************************************************************)
\* a file whose duration is known, and one for which neither the decoder
\* nor the probe gives a duration (load_file then stores 0.0)
Paths == {"track.mp3", "stream.ogg"}
ProbedDuration(path) == IF path = "track.mp3" THEN TrackLen ELSE 0

\* Seek targets: negative, inside the track, beyond its end, and a number
\* of seconds too large for a Duration (JSON carries e.g. 1e300)
HugePos == DurationMax + 1
SeekPositions == {-1, 1, TrackLen + 1, HugePos}

\* SetVolume levels: below, inside and above [0, 100]
Levels == {-10, 50, 150}

\* outcome of the open / decode / sink-creation steps of Load and Seek
IoOutcomes == {"ok", "open", "decode", "sink"}

\* player.rs lines 69-79: AudioCommand, in two alphabets: the transport
\* commands, and the gain commands with the commands that create, replace
\* or discard a sink
TransportCommands ==
    [tag : {"Load"}, path : Paths]
    \cup [tag : {"Play", "Pause", "Stop", "MarkFinished", "Shutdown"}]
    \cup [tag : {"Seek"}, position : SeekPositions]

GainCommands ==
    [tag : {"SetVolume"}, level : Levels]
    \cup [tag : {"SetMuted"}, muted : BOOLEAN]
    \cup [tag : {"Load"}, path : {"track.mp3"}]
    \cup [tag : {"Stop"}]
    \cup [tag : {"Seek"}, position : {1}]

VARIABLES
    engine,     \* the engine thread: "start", "running", "exited", "panicked"
    epc,        \* where the engine thread is: "recv" or inside Seek ("seek_io")
    state,      \* InternalState
    sink,       \* Option<Sink>
    shared,     \* SharedAudioState.inner: the published AudioState
    finished,   \* SharedAudioState.finished
    queue,      \* the mpsc command channel
    now,        \* the wall clock
    io,         \* history: how the last Load or Seek since the last Stop ended
    sinceStop,  \* history: a Stop was processed and no Load since
    muteGain,   \* history: the gain before the SetMuted(true) just processed
    pending,    \* history: the engine's sink ran out while playing and no
                \* audio_finished has been sent since
    fixed,      \* history: the position that the last position-fixing
                \* command fixed, and the time spent playing since
    log,        \* history: the commands handed to the Engine Handle and the
                \* commands the engine took, in order (HandleSpec only)
    handles,    \* some AudioPlayerHandle (a Sender of the channel) is alive
    pub,        \* state_task: finished_sent and the prev_* values
    outbox,     \* the session's outbound channel (message types)
    obsPlaying, \* history: is_playing of the snapshot state_task read last
    risen,      \* history: state_task has read is_playing going from false
                \* to true since it last sent audio_finished
    obsTime,    \* history: current_time of the snapshot state_task read last
    lastSent,   \* history: the payload of the last audio_state_update sent
    sup,        \* start_audio_controller: "connect" (about to call
                \* run_audio_client), "session" (inside its read loop) or
                \* "sleep" (in the delay of line 136)
    sleepLeft,  \* the seconds left of that delay
    writer,     \* write_task: "running", "stopped" (it left its loop) or
                \* "aborted"
    stask,      \* state_task: "running", "stopped" or "aborted"
    attempt,    \* history: how the last connection attempt ended: "first"
                \* (the one the session of Init came from), "ok", "failed"
    store       \* SharedAudioState.inner's RwLock: who holds it and how far
                \* each holder has got; history: the snapshots published
                \* and what each reader was returned last (ReadSpec only:
                \* elsewhere an access is one step and store stays None)

session == <<sup, sleepLeft, writer, stask, attempt>>

bridge == <<pub, outbox, obsPlaying, risen, obsTime, lastSent, handles,
            session, store>>

vars == <<engine, epc, state, sink, shared, finished, queue, now,
          io, sinceStop, muteGain, pending, fixed, log, bridge>>

hist == <<io, sinceStop, muteGain, pending, fixed, log, bridge>>

(***************************************************************************)
(* player.rs: data                                                         *)
(***************************************************************************)
InternalStateDefault ==
    [is_playing |-> FALSE, current_time |-> 0, duration |-> 0, volume |-> 100,
     is_muted |-> FALSE, is_loading |-> FALSE, error |-> None,
     start_time |-> None, pause_offset |-> 0, pre_mute_volume |-> 100,
     current_path |-> None]

AudioStateDefault ==
    [is_playing |-> FALSE, current_time |-> 0, duration |-> 0, volume |-> 100,
     is_muted |-> FALSE, is_loading |-> FALSE, error |-> None]

\* the AudioState literal built from the InternalState (updated_at left out)
AudioStateOf(st) ==
    [is_playing |-> st.is_playing, current_time |-> st.current_time,
     duration |-> st.duration, volume |-> st.volume, is_muted |-> st.is_muted,
     is_loading |-> st.is_loading, error |-> st.error]

Min(a, b) == IF a < b THEN a ELSE b
Max(a, b) == IF a > b THEN a ELSE b
Clamp(x, lo, hi) == Max(lo, Min(x, hi))

\* a rodio Sink: its gain, whether it is paused, whether its queue is empty
NewSink(gain) == [gain |-> gain, paused |-> FALSE, empty |-> FALSE]

(***************************************************************************)
(* player.rs: sync_state                                                   *)
(***************************************************************************)
\* the position while playing as it would be without pause_offset
SyncTime_IgnoresOffset(st, t) ==
    IF st.is_playing /\ IsSome(st.start_time)
    THEN LET elapsed == t - Unwrap(st.start_time)
         IN [st EXCEPT !.current_time =
                 IF st.duration > 0 /\ elapsed > st.duration
                 THEN st.duration ELSE elapsed]
    ELSE st

\* lines 168-176: the position while playing, clamped to a known duration
SyncTime(st, t) ==
    IF st.is_playing /\ IsSome(st.start_time)
    THEN LET elapsed == (t - Unwrap(st.start_time)) + st.pause_offset
         IN [st EXCEPT !.current_time =
                 IF st.duration > 0 /\ elapsed > st.duration
                 THEN st.duration ELSE elapsed]
    ELSE st

\* lines 179-183: the finished flag
IsFinished(st, sk) ==
    IF IsSome(sk) THEN Unwrap(sk).empty /\ st.is_playing ELSE FALSE

\* sync_state applied to the engine's state st and sink sk
sync_state(st, sk) ==
    /\ state' = SyncTime(st, now)
    /\ finished' = IsFinished(state', sk)
    /\ shared' = AudioStateOf(state')
    /\ sink' = sk

(***************************************************************************)
(* player.rs: gains                                                        *)
(***************************************************************************)
\* lines 347-351 and 451-455: the gain of a sink created by Load or Seek
SinkVolume(st) == IF st.is_muted THEN 0 ELSE st.volume

\* line 248: the gain SetVolume computes
SetVolumeGain(level) == Clamp(level, 0, 100)

\* SetVolume as it would be without the test of is_muted
SetVolumeSink_IgnoresMute(st, sk, level) ==
    IF IsSome(sk)
    THEN Some([Unwrap(sk) EXCEPT !.gain = Clamp(level, 0, 100)])
    ELSE sk

\* lines 249-253: SetVolume touches the gain only when unmuted
SetVolumeSink(st, sk, level) ==
    IF IsSome(sk) /\ ~st.is_muted
    THEN Some([Unwrap(sk) EXCEPT !.gain = SetVolumeGain(level)])
    ELSE sk

\* lines 254-255: what SetVolume stores
SetVolumeState(st, level) ==
    [st EXCEPT !.volume = level, !.pre_mute_volume = level]

\* lines 259-265: the gain SetMuted applies
SetMutedSink(st, sk, muted) ==
    IF IsSome(sk)
    THEN Some([Unwrap(sk) EXCEPT !.gain = IF muted THEN 0 ELSE st.volume])
    ELSE sk

(***************************************************************************)
(* player.rs: run_audio_player_thread                                      *)
(***************************************************************************)
\* the log of the channel, kept only in the specifications that start with
\* it set (HandleSpec); elsewhere it stays None.  sent: the commands handed
\* to a handle, in order; refused: how many of them met a closed channel;
\* applied: the commands the engine took, in order; read: the text messages
\* the read loop took off the socket, in order
LogInit == [sent |-> <<>>, refused |-> 0, applied |-> <<>>, read |-> <<>>]

LogSent(l, cmd) ==
    IF IsSome(l) THEN Some([Unwrap(l) EXCEPT !.sent = Append(@, cmd)])
    ELSE None

LogRefused(l, cmd) ==
    IF IsSome(l)
    THEN Some([Unwrap(l) EXCEPT !.sent = Append(@, cmd), !.refused = @ + 1])
    ELSE None

LogApplied(l, cmd) ==
    IF IsSome(l) THEN Some([Unwrap(l) EXCEPT !.applied = Append(@, cmd)])
    ELSE None

\* the engine is blocked in recv_timeout with a command at the head
Receives(tag) ==
    /\ engine = "running"
    /\ epc = "recv"
    /\ queue # <<>>
    /\ Head(queue).tag = tag

\* lines 391-395
SeekTarget(st, position) ==
    IF st.duration > 0 THEN Clamp(position, 0, st.duration)
    ELSE Max(position, 0)

\* the history of positions.  at is the position fixed by the most recent
\* Load (0), Seek (the clamped target), Pause (the position reached), Stop
\* (0) or MarkFinished (0), and played the time spent playing since; byLsp
\* is the position that Load, Seek and Pause alone account for: the
\* position fixed by the most recent of them plus the time spent playing
\* since.  byLsp is recorded only in the specifications that start with it
\* set (ClockSpec); elsewhere it stays None.
FixedInit == [at |-> 0, played |-> 0, byLsp |-> None]

Recorded(f, position) == IF IsSome(f.byLsp) THEN Some(position) ELSE None

Fixed(f, cmd, o, st) ==
    CASE cmd.tag = "Load" /\ o = "ok" ->
            [at |-> 0, played |-> 0, byLsp |-> Recorded(f, 0)]
      [] cmd.tag = "Seek" /\ o = "pending" ->
            [at |-> SeekTarget(st, cmd.position), played |-> 0,
             byLsp |-> Recorded(f, SeekTarget(st, cmd.position))]
      [] cmd.tag = "Pause" /\ st.is_playing ->
            [at |-> f.at + f.played, played |-> 0,
             byLsp |-> Recorded(f, f.at + f.played)]
      [] cmd.tag \in {"Stop", "MarkFinished"} ->
            [f EXCEPT !.at = 0, !.played = 0]
      [] OTHER -> f

\* a time unit passes
FixedTick(f, st) ==
    IF st.is_playing
    THEN [f EXCEPT !.played = @ + 1,
                   !.byLsp = IF IsSome(@) THEN Some(Unwrap(@) + 1) ELSE None]
    ELSE f

\* the engine's bookkeeping as it would be if the command stayed in the
\* channel
Done_KeepsCommand(o, stopped, sameSink) ==
    /\ queue' = queue
    /\ log' = LogApplied(log, Head(queue))
    /\ fixed' = Fixed(fixed, Head(queue), o, state)
    /\ io' = o
    /\ sinceStop' = stopped
    /\ muteGain' = None
    /\ pending' = (pending /\ sameSink)
    /\ UNCHANGED bridge

\* the command is taken off the channel; the history variables record
\* the outcome o of a Load or Seek, whether a Stop is the last of Stop and
\* Load, and whether the sink that ran out is still the engine's sink
Done(o, stopped, sameSink) ==
    /\ queue' = Tail(queue)
    /\ log' = LogApplied(log, Head(queue))
    /\ fixed' = Fixed(fixed, Head(queue), o, state)
    /\ io' = o
    /\ sinceStop' = stopped
    /\ muteGain' = None
    /\ pending' = (pending /\ sameSink)
    /\ UNCHANGED bridge

\* lines 151-157: the thread opens the output device, or returns
EngineStart ==
    /\ engine = "start"
    /\ engine' = "running"
    /\ UNCHANGED <<epc, state, sink, shared, finished, queue, now, hist>>

\* the failure to open the device as it would be if it were reported in
\* the snapshot
EngineNoDevice_ReportsError ==
    /\ engine = "start"
    /\ engine' = "exited"
    /\ queue' = <<>>
    /\ shared' = [shared EXCEPT !.error = Some("device")]
    /\ UNCHANGED <<epc, state, sink, finished, now, hist>>

\* lines 151-157: the device cannot be opened and the thread returns; the
\* receiver is dropped with it, and with it whatever is queued
EngineNoDevice ==
    /\ engine = "start"
    /\ engine' = "exited"
    /\ queue' = <<>>
    /\ UNCHANGED <<epc, state, sink, shared, finished, now, hist>>

\* lines 283-286: no command within the timeout
Timeout ==
    /\ engine = "running"
    /\ epc = "recv"
    /\ queue = <<>>
    /\ handles
    /\ sync_state(state, sink)
    /\ UNCHANGED <<engine, epc, queue, now, hist>>

\* lines 287-289: the channel is empty and every Sender has been dropped
Disconnected ==
    /\ engine = "running"
    /\ epc = "recv"
    /\ queue = <<>>
    /\ ~handles
    /\ engine' = "exited"
    /\ sink' = None
    /\ muteGain' = None
    /\ pending' = FALSE
    /\ UNCHANGED <<epc, state, shared, finished, queue, now, io, sinceStop,
                   fixed, log, bridge>>

\* lines 205-216
PlaySink(sk) ==
    IF IsSome(sk) /\ Unwrap(sk).paused
    THEN Some([Unwrap(sk) EXCEPT !.paused = FALSE]) ELSE sk

PlayState(st, t) ==
    IF ~st.is_playing
    THEN [st EXCEPT !.is_playing = TRUE, !.start_time = Some(t)]
    ELSE st

CmdPlay ==
    /\ Receives("Play")
    /\ sync_state(PlayState(state, now), PlaySink(sink))
    /\ Done(io, sinceStop, TRUE)
    /\ UNCHANGED <<engine, epc, now>>

\* lines 217-231
PauseState(st, t) ==
    LET frozen ==
            IF IsSome(st.start_time)
            THEN LET elapsed == (t - Unwrap(st.start_time)) + st.pause_offset
                 IN [st EXCEPT !.pause_offset = elapsed,
                               !.current_time = elapsed]
            ELSE st
    IN [frozen EXCEPT !.is_playing = FALSE, !.start_time = None]

PauseSink(sk) ==
    IF IsSome(sk) THEN Some([Unwrap(sk) EXCEPT !.paused = TRUE]) ELSE sk

CmdPause ==
    /\ Receives("Pause")
    /\ sync_state(PauseState(state, now), PauseSink(sink))
    /\ Done(io, sinceStop, TRUE)
    /\ UNCHANGED <<engine, epc, now>>

\* Stop as it would be without the reset of current_path
StopState_KeepsPath(st) ==
    [st EXCEPT !.is_playing = FALSE, !.current_time = 0, !.start_time = None,
               !.pause_offset = 0]

\* Stop as it would be if it also cleared the error
StopState_ClearsError(st) ==
    [st EXCEPT !.is_playing = FALSE, !.current_time = 0, !.start_time = None,
               !.pause_offset = 0, !.current_path = None, !.error = None]

\* lines 232-243
StopState(st) ==
    [st EXCEPT !.is_playing = FALSE, !.current_time = 0, !.start_time = None,
               !.pause_offset = 0, !.current_path = None]

CmdStop ==
    /\ Receives("Stop")
    /\ sync_state(StopState(state), None)
    /\ Done("none", TRUE, FALSE)
    /\ UNCHANGED <<engine, epc, now>>

\* lines 247-257
CmdSetVolume ==
    /\ Receives("SetVolume")
    /\ LET level == Head(queue).level
       IN sync_state(SetVolumeState(state, level),
                     SetVolumeSink(state, sink, level))
    /\ Done(io, sinceStop, TRUE)
    /\ UNCHANGED <<engine, epc, now>>

\* lines 258-268
CmdSetMuted ==
    /\ Receives("SetMuted")
    /\ LET muted == Head(queue).muted
       IN sync_state([state EXCEPT !.is_muted = muted],
                     SetMutedSink(state, sink, muted))
    /\ queue' = Tail(queue)
    /\ muteGain' = IF Head(queue).muted /\ ~state.is_muted /\ IsSome(sink)
                   THEN Some(Unwrap(sink).gain) ELSE None
    /\ log' = LogApplied(log, Head(queue))
    /\ UNCHANGED <<io, sinceStop, pending, fixed, bridge>>
    /\ UNCHANGED <<engine, epc, now>>

\* MarkFinished as it would be if it left is_playing alone
MarkFinishedState_KeepsPlaying(st) ==
    [st EXCEPT !.current_time = st.duration, !.start_time = None,
               !.pause_offset = 0]

\* lines 269-275
MarkFinishedState(st) ==
    [st EXCEPT !.is_playing = FALSE, !.current_time = st.duration,
               !.start_time = None, !.pause_offset = 0]

CmdMarkFinished ==
    /\ Receives("MarkFinished")
    /\ sync_state(MarkFinishedState(state), sink)
    /\ Done(io, sinceStop, TRUE)
    /\ UNCHANGED <<engine, epc, now>>

\* Shutdown as it would be if it stopped the sink without leaving the loop
CmdShutdown_KeepsRunning ==
    /\ Receives("Shutdown")
    /\ queue' = Tail(queue)
    /\ sink' = None
    /\ muteGain' = None
    /\ pending' = FALSE
    /\ log' = LogApplied(log, Head(queue))
    /\ UNCHANGED <<engine, epc, state, shared, finished, now, io, sinceStop,
                   fixed, bridge>>

\* lines 276-281: the sink is stopped and the loop left; the receiver is
\* dropped with the thread, and with it whatever is still queued
CmdShutdown ==
    /\ Receives("Shutdown")
    /\ engine' = "exited"
    /\ queue' = <<>>
    /\ sink' = None
    /\ muteGain' = None
    /\ pending' = FALSE
    /\ log' = LogApplied(log, Head(queue))
    /\ UNCHANGED <<epc, state, shared, finished, now, io, sinceStop, fixed,
                   bridge>>

(***************************************************************************)
(* player.rs: load_file                                                    *)
(***************************************************************************)
\* lines 311, 321, 339: the error message, reduced to the step that failed
LoadError(path, o) == o

\* load_file as it would be if a failure returned without resetting
\* is_loading
load_state_KeepsLoading(st, path, o, t) ==
    IF o # "ok"
    THEN [st EXCEPT !.is_loading = TRUE,
                    !.error = Some(LoadError(path, o))]
    ELSE [st EXCEPT !.is_playing = TRUE, !.current_time = 0,
                    !.duration = ProbedDuration(path), !.is_loading = FALSE,
                    !.error = None, !.start_time = Some(t),
                    !.pause_offset = 0, !.current_path = Some(path)]

\* load_file as it would be if a failure also ended the playback
load_state_StopsOnFailure(st, path, o, t) ==
    IF o # "ok"
    THEN [st EXCEPT !.is_loading = FALSE, !.is_playing = FALSE,
                    !.start_time = None,
                    !.error = Some(LoadError(path, o))]
    ELSE [st EXCEPT !.is_playing = TRUE, !.current_time = 0,
                    !.duration = ProbedDuration(path), !.is_loading = FALSE,
                    !.error = None, !.start_time = Some(t),
                    !.pause_offset = 0, !.current_path = Some(path)]

\* load_file as it would be if a success returned without resetting
\* is_loading
load_state_LoadingOnSuccess(st, path, o, t) ==
    IF o # "ok"
    THEN [st EXCEPT !.is_loading = FALSE,
                    !.error = Some(LoadError(path, o))]
    ELSE [st EXCEPT !.is_playing = TRUE, !.current_time = 0,
                    !.duration = ProbedDuration(path), !.is_loading = TRUE,
                    !.error = None, !.start_time = Some(t),
                    !.pause_offset = 0, !.current_path = Some(path)]

\* lines 304-344 (a failure) and 362-370 (success)
load_state(st, path, o, t) ==
    IF o # "ok"
    THEN [st EXCEPT !.is_loading = FALSE,
                    !.error = Some(LoadError(path, o))]
    ELSE [st EXCEPT !.is_playing = TRUE, !.current_time = 0,
                    !.duration = ProbedDuration(path), !.is_loading = FALSE,
                    !.error = None, !.start_time = Some(t),
                    !.pause_offset = 0, !.current_path = Some(path)]

\* load_file as it would be if it stopped the old sink before creating the
\* new one
load_sink_StopsFirst(st, sk, o) ==
    IF o # "ok" THEN None ELSE Some(NewSink(SinkVolume(st)))

\* load_file as it would be if the new sink were left at full gain
load_sink_FullGain(st, sk, o) ==
    IF o # "ok" THEN sk ELSE Some(NewSink(100))

\* lines 335-360: the new sink replaces the old one only on success
load_sink(st, sk, o) ==
    IF o # "ok" THEN sk ELSE Some(NewSink(SinkVolume(st)))

CmdLoad ==
    /\ Receives("Load")
    /\ \E o \in IoOutcomes :
          /\ sync_state(load_state(state, Head(queue).path, o, now),
                        load_sink(state, sink, o))
          /\ Done(o, FALSE, o # "ok")
    /\ UNCHANGED <<engine, epc, now>>

(***************************************************************************)
(* player.rs: seek_to_position                                             *)
(***************************************************************************)
\* Duration::from_secs_f64 panics on a value that overflows Duration
DurationFits(secs) == secs >= 0 /\ secs <= DurationMax

\* the immediate update of Seek as it would be if it set start_time whether
\* or not the track was playing
seek_state_AlwaysRestarts(st, position, t) ==
    [st EXCEPT !.current_time = position, !.pause_offset = position,
               !.start_time = Some(t)]

\* lines 399-404
seek_state(st, position, t) ==
    LET moved == [st EXCEPT !.current_time = position,
                            !.pause_offset = position]
    IN IF st.is_playing THEN [moved EXCEPT !.start_time = Some(t)] ELSE moved

\* lines 382-388: no file loaded, nothing is done and nothing is published
CmdSeekNoFile ==
    /\ Receives("Seek")
    /\ ~IsSome(state.current_path)
    /\ Done("nofile", sinceStop, TRUE)
    /\ UNCHANGED <<engine, epc, state, sink, shared, finished, now>>

\* lines 390-416: the new position is stored and published at once
\* (shared_state.update only: the finished flag is not rewritten)
CmdSeek ==
    /\ Receives("Seek")
    /\ IsSome(state.current_path)
    /\ LET position == SeekTarget(state, Head(queue).position)
       IN /\ DurationFits(position)
          /\ state' = seek_state(state, position, now)
          /\ shared' = AudioStateOf(state')
    /\ epc' = "seek_io"
    /\ Done("pending", sinceStop, TRUE)
    /\ UNCHANGED <<engine, sink, finished, now>>

\* line 401: Duration::from_secs_f64 panics and the thread unwinds; its sink
\* and receiver are dropped, nothing is published
CmdSeekPanic ==
    /\ Receives("Seek")
    /\ IsSome(state.current_path)
    /\ ~DurationFits(SeekTarget(state, Head(queue).position))
    /\ engine' = "panicked"
    /\ queue' = <<>>
    /\ sink' = None
    /\ io' = "panic"
    /\ muteGain' = None
    /\ pending' = FALSE
    /\ log' = LogApplied(log, Head(queue))
    /\ UNCHANGED <<epc, state, shared, finished, now, sinceStop, fixed,
                   bridge>>

\* seek_to_position as it would be without the pause of the new sink
seek_sink_AlwaysPlays(st, sk, o) ==
    IF o # "ok" THEN sk ELSE Some(NewSink(SinkVolume(st)))

\* lines 459-469: the replacement sink, paused unless the track was playing
seek_sink(st, sk, o) ==
    IF o # "ok" THEN sk
    ELSE Some([NewSink(SinkVolume(st)) EXCEPT !.paused = ~st.is_playing])

\* lines 420-471: re-open, decode, skip, new sink; a failure returns
\* (neither path calls sync_state)
SeekIo ==
    /\ engine = "running"
    /\ epc = "seek_io"
    /\ \E o \in IoOutcomes :
          /\ sink' = seek_sink(state, sink, o)
          /\ io' = o
          /\ pending' = (pending /\ o # "ok")
    /\ epc' = "recv"
    /\ UNCHANGED <<engine, state, shared, finished, queue, now, sinceStop,
                   muteGain, fixed, log, bridge>>

(***************************************************************************)
(* The environment of the engine                                           *)
(***************************************************************************)
\* wall-clock time passes
Tick ==
    /\ now < MaxTime
    /\ now' = now + 1
    /\ fixed' = FixedTick(fixed, state)
    /\ UNCHANGED <<engine, epc, state, sink, shared, finished, queue,
                   io, sinceStop, muteGain, pending, log, bridge>>

\* the playing sink runs out of samples (Sink::empty becomes true)
SinkExhausted ==
    /\ IsSome(sink)
    /\ ~Unwrap(sink).paused
    /\ ~Unwrap(sink).empty
    /\ sink' = Some([Unwrap(sink) EXCEPT !.empty = TRUE])
    /\ pending' = (pending \/ state.is_playing)
    /\ UNCHANGED <<engine, epc, state, shared, finished, queue, now,
                   io, sinceStop, muteGain, fixed, log, bridge>>

\* player.rs lines 88-134: AudioPlayerHandle sends a command, the channel
\* holding fewer than depth commands
SendUpTo(commands, depth) ==
    /\ engine \in {"start", "running"}
    /\ handles
    /\ Len(queue) < depth
    /\ \E cmd \in commands :
          /\ queue' = Append(queue, cmd)
          /\ log' = LogSent(log, cmd)
    /\ UNCHANGED <<engine, epc, state, sink, shared, finished, now,
                   io, sinceStop, muteGain, pending, fixed, bridge>>

Send(commands) == SendUpTo(commands, MaxQueue)

\* once the receiver is gone the send fails and the error is ignored
\* (let _ = self.tx.send(..))
SendRefused(commands) ==
    /\ engine \in {"exited", "panicked"}
    /\ handles
    /\ \E cmd \in commands : log' = LogRefused(log, cmd)
    /\ UNCHANGED <<engine, epc, state, sink, shared, finished, queue, now,
                   io, sinceStop, muteGain, pending, fixed, bridge>>

\* the last AudioPlayerHandle is dropped
DropHandles ==
    /\ handles
    /\ handles' = FALSE
    /\ UNCHANGED <<engine, epc, state, sink, shared, finished, queue, now,
                   io, sinceStop, muteGain, pending, fixed, log,
                   pub, outbox, obsPlaying, risen, obsTime, lastSent,
                   session,
                   store>>

(***************************************************************************)
(* player.rs: SharedAudioState, the RwLock around the published AudioState *)
(***************************************************************************)
\* the threads that call get_state()
Readers == {"r1", "r2"}

\* the snapshots handed to update()
Snapshots ==
    {[AudioStateDefault EXCEPT !.is_playing = p, !.is_muted = m] :
        p \in BOOLEAN, m \in BOOLEAN}

\* lines 45-49 and 139: the lock is free and holds the default AudioState
StoreInit ==
    [writing |-> None, half |-> 0,
     reading |-> [r \in Readers |-> "idle"],
     part |-> [r \in Readers |-> AudioStateDefault],
     got |-> [r \in Readers |-> AudioStateDefault],
     fin |-> [r \in Readers |-> FALSE],
     idx |-> [r \in Readers |-> 1],
     pubs |-> <<AudioStateDefault>>]

\* a struct is copied piece by piece: the first piece of src over dst
FirstHalf(dst, src) ==
    [dst EXCEPT !.is_playing = src.is_playing,
                !.current_time = src.current_time,
                !.duration = src.duration]

\* read() as it would be if it did not wait for the writer
CanRead_IgnoresWriter(st) == TRUE

\* line 52: RwLock::read is granted while no writer holds the lock
CanRead(st) == st.writing = None

\* line 60: RwLock::write is granted while nobody holds the lock
CanWrite(st) ==
    st.writing = None /\ \A r \in Readers : st.reading[r] = "idle"

StoreFrame ==
    UNCHANGED <<engine, epc, state, sink, finished, queue, now, io,
                sinceStop, muteGain, pending, fixed, log, pub, outbox,
                obsPlaying, risen, obsTime, handles, session>>

\* lines 59-61, called at 186 and 406: update() takes the write lock
UpdateLock ==
    /\ engine = "running"
    /\ IsSome(store)
    /\ CanWrite(Unwrap(store))
    /\ Len(Unwrap(store).pubs) < MaxPubs
    /\ \E v \in Snapshots :
          store' = Some([Unwrap(store) EXCEPT !.writing = Some(v),
                                              !.half = 0])
    /\ UNCHANGED <<shared, lastSent>>
    /\ StoreFrame

\* line 60: the first piece of the new AudioState is stored
UpdateFirst ==
    /\ IsSome(store)
    /\ IsSome(Unwrap(store).writing)
    /\ Unwrap(store).half = 0
    /\ shared' = FirstHalf(shared, Unwrap(Unwrap(store).writing))
    /\ store' = Some([Unwrap(store) EXCEPT !.half = 1])
    /\ UNCHANGED lastSent
    /\ StoreFrame

\* lines 60-61: the rest is stored and the lock released
UpdateRest ==
    /\ IsSome(store)
    /\ IsSome(Unwrap(store).writing)
    /\ Unwrap(store).half = 1
    /\ LET v == Unwrap(Unwrap(store).writing)
       IN /\ shared' = v
          /\ store' = Some([Unwrap(store) EXCEPT !.writing = None,
                                                 !.half = 0,
                                                 !.pubs = Append(@, v)])
    /\ UNCHANGED lastSent
    /\ StoreFrame

\* lines 51-53: get() takes the read lock
GetLock(r) ==
    /\ IsSome(store)
    /\ Unwrap(store).reading[r] = "idle"
    /\ CanRead(Unwrap(store))
    /\ store' = Some([Unwrap(store) EXCEPT !.reading[r] = "locked"])
    /\ UNCHANGED <<shared, lastSent>>
    /\ StoreFrame

\* line 52: clone() copies the first piece
GetFirst(r) ==
    /\ IsSome(store)
    /\ Unwrap(store).reading[r] = "locked"
    /\ store' = Some([Unwrap(store) EXCEPT
                        !.reading[r] = "first",
                        !.part[r] = FirstHalf(@, shared)])
    /\ UNCHANGED <<shared, lastSent>>
    /\ StoreFrame

\* lines 52-53: clone() copies the rest, the lock is released and the copy
\* returned; idx is the number of publications completed by then
GetRest(r) ==
    /\ IsSome(store)
    /\ Unwrap(store).reading[r] = "first"
    /\ store' = Some([Unwrap(store) EXCEPT
                        !.reading[r] = "idle",
                        !.got[r] = FirstHalf(shared, Unwrap(store).part[r]),
                        !.idx[r] = Len(Unwrap(store).pubs)])
    /\ UNCHANGED <<shared, lastSent>>
    /\ StoreFrame

\* websocket_client.rs line 198 (player.rs lines 51-53, 118-120): a reader
\* calls get_state() and is returned the snapshot
ObserveState(r) ==
    /\ IsSome(store)
    /\ Unwrap(store).reading[r] = "idle"
    /\ store' = Some([Unwrap(store) EXCEPT !.reading[r] = "between",
                                           !.got[r] = shared])
    /\ UNCHANGED <<shared, lastSent>>
    /\ StoreFrame

\* websocket_client.rs line 199 (player.rs lines 55-57, 123-125): the
\* reader then calls is_finished() and is returned the flag
ObserveFinished(r) ==
    /\ IsSome(store)
    /\ Unwrap(store).reading[r] = "between"
    /\ store' = Some([Unwrap(store) EXCEPT !.reading[r] = "idle",
                                           !.fin[r] = finished])
    /\ UNCHANGED <<shared, lastSent>>
    /\ StoreFrame

(***************************************************************************)
(* websocket_client.rs: run_audio_client, the state_task and write_task    *)
(***************************************************************************)
\* line 234: the currentTime threshold, 0.05 s, in time units
TimeEps == 1
\* line 191: the initial prev_volume
PrevVolumeInit == 1
\* line 136: the delay before the next connection attempt, in seconds
ReconnectDelay == 3

\* lines 185-193
PublisherInit ==
    [finished_sent |-> FALSE, prev_is_playing |-> FALSE,
     prev_current_time |-> 0, prev_duration |-> 0,
     prev_volume |-> PrevVolumeInit, prev_is_muted |-> FALSE,
     prev_is_loading |-> FALSE]

Abs(x) == IF x < 0 THEN -x ELSE x

\* line 202: the track finished and the server has not been told
FinishDetected(p, is_finished) ==
    p.prev_is_playing /\ is_finished /\ ~p.finished_sent

\* the reset of finished_sent as it would be without the test of
\* prev_is_playing
NewTrackStarts_IgnoresPrev(st, p) == st.is_playing

\* line 228: a new track starts
NewTrackStarts(st, p) == st.is_playing /\ ~p.prev_is_playing

\* the change detection as it would be without the currentTime threshold
StateChanged_NoThreshold(st, p) ==
    \/ st.is_playing # p.prev_is_playing
    \/ st.current_time # p.prev_current_time
    \/ st.duration # p.prev_duration
    \/ st.volume # p.prev_volume
    \/ st.is_muted # p.prev_is_muted
    \/ st.is_loading # p.prev_is_loading

\* lines 234-240
StateChanged(st, p) ==
    \/ st.is_playing # p.prev_is_playing
    \/ Abs(st.current_time - p.prev_current_time) > TimeEps
    \/ st.duration # p.prev_duration
    \/ st.volume # p.prev_volume
    \/ st.is_muted # p.prev_is_muted
    \/ st.is_loading # p.prev_is_loading

\* lines 265-270
Remember(st, p) ==
    [p EXCEPT !.prev_is_playing = st.is_playing,
              !.prev_current_time = st.current_time,
              !.prev_duration = st.duration,
              !.prev_volume = st.volume,
              !.prev_is_muted = st.is_muted,
              !.prev_is_loading = st.is_loading]

\* lines 243-255: the payload of an audio_state_update, its error text
\* reduced to whether there is one
Payload(st) ==
    [st EXCEPT !.error = IF IsSome(st.error) THEN Some("error") ELSE None]

\* the messages of the state_task still waiting in the outbound channel
Unwritten ==
    {i \in DOMAIN outbox :
        outbox[i] \in {"audio_finished", "audio_state_update"}}

\* lines 195-272: one tick of the state_task.  The tick waits until the
\* write_task has taken the messages of the tick before (this bounds the
\* unbounded outbound channel); mark_finished may exceed MaxQueue by one.
PublisherTick ==
    /\ Unwritten = {}
    /\ Len(queue) <= MaxQueue
    /\ LET st == shared
           is_finished == finished
           emit == FinishDetected(pub, is_finished)
           sent == IF emit THEN [pub EXCEPT !.finished_sent = TRUE] ELSE pub
           reset == IF NewTrackStarts(st, sent)
                    THEN [sent EXCEPT !.finished_sent = FALSE] ELSE sent
           changed == StateChanged(st, reset)
       IN /\ queue' = IF emit /\ engine \in {"start", "running"}
                      THEN Append(queue, [tag |-> "MarkFinished"])
                      ELSE queue
          /\ log' = IF ~emit THEN log
                    ELSE IF engine \in {"start", "running"}
                         THEN LogSent(log, [tag |-> "MarkFinished"])
                         ELSE LogRefused(log, [tag |-> "MarkFinished"])
          /\ outbox' = outbox
                       \o (IF emit THEN <<"audio_finished">> ELSE <<>>)
                       \o (IF changed THEN <<"audio_state_update">>
                           ELSE <<>>)
          /\ pub' = IF changed THEN Remember(st, reset) ELSE reset
          /\ pending' = (pending /\ ~emit)
          /\ risen' = IF emit THEN FALSE
                      ELSE (risen \/ (st.is_playing /\ ~obsPlaying))
          /\ obsPlaying' = st.is_playing
          /\ obsTime' = st.current_time
          /\ lastSent' = IF changed THEN Some(Payload(st)) ELSE lastSent
    /\ UNCHANGED <<engine, epc, state, sink, shared, finished, now,
                   io, sinceStop, muteGain, fixed, handles, session,
                   store>>

\* the write_task as it would be if it took the newest message first
Writer_TakesNewest ==
    /\ outbox # <<>>
    /\ outbox' = SubSeq(outbox, 1, Len(outbox) - 1)
    /\ UNCHANGED <<engine, epc, state, sink, shared, finished, queue, now,
                   io, sinceStop, muteGain, pending, fixed, log, pub,
                   obsPlaying, risen, obsTime, lastSent, handles, session,
                   store>>

\* lines 171-178: the write_task writes the next message to the socket
Writer ==
    /\ outbox # <<>>
    /\ outbox' = Tail(outbox)
    /\ UNCHANGED <<engine, epc, state, sink, shared, finished, queue, now,
                   io, sinceStop, muteGain, pending, fixed, log, pub,
                   obsPlaying, risen, obsTime, lastSent, handles, session,
                   store>>

\* lines 288-295 and 317-329: the commands the Reader forwards
ServerCommands ==
    [tag : {"Load"}, path : {"track.mp3"}]
    \cup [tag : {"Play", "Pause", "Stop"}]

(***************************************************************************)
(* websocket_client.rs: the session and its supervisor                     *)
(***************************************************************************)
\* lines 202 and 242: this tick of the state_task has a message to send
TickSends ==
    LET emit == FinishDetected(pub, finished)
        sent == IF emit THEN [pub EXCEPT !.finished_sent = TRUE] ELSE pub
        reset == IF NewTrackStarts(shared, sent)
                 THEN [sent EXCEPT !.finished_sent = FALSE] ELSE sent
    IN emit \/ StateChanged(shared, reset)

\* lines 195-272: a tick of the state_task whose sends, if any, succeed
StateTask ==
    /\ sup = "session"
    /\ stask = "running"
    /\ writer = "running" \/ ~TickSends
    /\ PublisherTick

\* lines 216-221 and 257-262: the write_task is gone and with it the
\* receiver of the outbound channel; the send fails and the state_task
\* leaves its loop (after mark_finished, line 204, if the track finished)
StateTaskBreak ==
    /\ sup = "session"
    /\ stask = "running"
    /\ writer = "stopped"
    /\ TickSends
    /\ Len(queue) <= MaxQueue
    /\ LET emit == FinishDetected(pub, finished)
       IN /\ queue' = IF emit /\ engine \in {"start", "running"}
                      THEN Append(queue, [tag |-> "MarkFinished"])
                      ELSE queue
          /\ pub' = IF emit THEN [pub EXCEPT !.finished_sent = TRUE]
                    ELSE pub
          /\ pending' = (pending /\ ~emit)
    /\ stask' = "stopped"
    /\ UNCHANGED <<engine, epc, state, sink, shared, finished, now, io,
                   sinceStop, muteGain, fixed, log, outbox, obsPlaying,
                   risen, obsTime, lastSent, handles, sup, sleepLeft,
                   writer, attempt,
                   store>>

\* lines 172-177: the write_task writes a message to the socket
WriteTask ==
    /\ sup = "session"
    /\ writer = "running"
    /\ Writer

\* lines 276-286: the ping_task queues a ping (its interval's first tick is
\* immediate); one ping waits in the channel at a time
PingTask ==
    /\ sup = "session"
    /\ writer = "running"
    /\ \A i \in DOMAIN outbox : outbox[i] # "ping"
    /\ outbox' = Append(outbox, "ping")
    /\ UNCHANGED <<engine, epc, state, sink, shared, finished, queue, now,
                   io, sinceStop, muteGain, pending, fixed, log, pub,
                   obsPlaying, risen, obsTime, lastSent, handles, session,
                   store>>

\* lines 174-176: the write fails and the write_task leaves its loop; the
\* receiver of the outbound channel is dropped with what it holds
WriterFail ==
    /\ sup = "session"
    /\ writer = "running"
    /\ outbox # <<>>
    /\ writer' = "stopped"
    /\ outbox' = <<>>
    /\ UNCHANGED <<engine, epc, state, sink, shared, finished, queue, now,
                   io, sinceStop, muteGain, pending, fixed, log, pub,
                   obsPlaying, risen, obsTime, lastSent, handles, sup,
                   sleepLeft, stask, attempt,
                   store>>

\* the commands of the server in the sessions that are followed from one
\* connection to the next
SessionCommands ==
    [tag : {"Load"}, path : {"track.mp3"}] \cup [tag : {"Pause"}]

\* lines 289-295: the read loop forwards a command of the server
Reader ==
    /\ sup = "session"
    /\ Send(SessionCommands)

\* an inbound text message: whether it is JSON at all, its "type" and its
\* "payload" (what kind of value it carries, and the value)
NoPayload == [kind |-> "none", value |-> 0]

InboundTexts ==
    {[json |-> TRUE, type |-> "audio_play", payload |-> NoPayload],
     [json |-> TRUE, type |-> "audio_pause", payload |-> NoPayload],
     [json |-> TRUE, type |-> "audio_load",
      payload |-> [kind |-> "path", value |-> "track.mp3"]],
     [json |-> TRUE, type |-> "audio_load", payload |-> NoPayload],
     [json |-> TRUE, type |-> "audio_rewind", payload |-> NoPayload],
     [json |-> FALSE, type |-> "", payload |-> NoPayload]}

\* lines 11-48 and 290, 317-329: serde_json::from_str::<ServerAudioCommand>
\* followed by handle_command: the command a text stands for, if any
ParseCommand(m) ==
    LET has(kind) == m.payload.kind = kind
        v == m.payload.value
    IN IF ~m.json THEN None
       ELSE IF m.type = "audio_load" /\ has("path")
            THEN Some([tag |-> "Load", path |-> v])
       ELSE IF m.type = "audio_play" THEN Some([tag |-> "Play"])
       ELSE IF m.type = "audio_pause" THEN Some([tag |-> "Pause"])
       ELSE IF m.type = "audio_stop" THEN Some([tag |-> "Stop"])
       ELSE IF m.type = "audio_seek" /\ has("time")
            THEN Some([tag |-> "Seek", position |-> v])
       ELSE IF m.type = "audio_volume" /\ has("level")
            THEN Some([tag |-> "SetVolume", level |-> v])
       ELSE IF m.type = "audio_mute" /\ has("muted")
            THEN Some([tag |-> "SetMuted", muted |-> v])
       ELSE None

LogRead(l, m) ==
    IF IsSome(l) THEN Some([Unwrap(l) EXCEPT !.read = Append(@, m)])
    ELSE None

\* the read loop as it would be if a text that does not parse ended it
ReadText_StopsOnMalformed ==
    /\ sup = "session"
    /\ IsSome(log)
    /\ Len(Unwrap(log).read) < MaxSent
    /\ \E m \in InboundTexts :
          LET cmd == ParseCommand(m)
              alive == engine \in {"start", "running"}
          IN /\ queue' = IF IsSome(cmd) /\ alive
                         THEN Append(queue, Unwrap(cmd)) ELSE queue
             /\ log' = IF ~IsSome(cmd) THEN LogRead(log, m)
                       ELSE IF alive
                            THEN LogSent(LogRead(log, m), Unwrap(cmd))
                            ELSE LogRefused(LogRead(log, m), Unwrap(cmd))
             /\ sup' = IF IsSome(cmd) THEN sup ELSE "sleep"
             /\ sleepLeft' = IF IsSome(cmd) THEN sleepLeft ELSE ReconnectDelay
    /\ UNCHANGED <<engine, epc, state, sink, shared, finished, now, io,
                   sinceStop, muteGain, pending, fixed, pub, outbox,
                   obsPlaying, risen, obsTime, lastSent, handles,
                   writer, stask, attempt, store>>

\* lines 288-295: the read loop takes a text message off the socket; if it
\* parses, handle_command sends the command to the engine, and if not the
\* loop goes on to the next message
ReadText ==
    /\ sup = "session"
    /\ IsSome(log)
    /\ Len(Unwrap(log).read) < MaxSent
    /\ \E m \in InboundTexts :
          LET cmd == ParseCommand(m)
              alive == engine \in {"start", "running"}
          IN /\ queue' = IF IsSome(cmd) /\ alive
                         THEN Append(queue, Unwrap(cmd)) ELSE queue
             /\ log' = IF ~IsSome(cmd) THEN LogRead(log, m)
                       ELSE IF alive
                            THEN LogSent(LogRead(log, m), Unwrap(cmd))
                            ELSE LogRefused(LogRead(log, m), Unwrap(cmd))
    /\ UNCHANGED <<engine, epc, state, sink, shared, finished, now, io,
                   sinceStop, muteGain, pending, fixed, pub, outbox,
                   obsPlaying, risen, obsTime, lastSent, handles, session,
                   store>>

\* the return of run_audio_client as it would be without the delay of
\* line 136
SocketClosed_NoDelay ==
    /\ sup = "session"
    /\ queue' = IF engine \in {"start", "running"}
                THEN Append(queue, [tag |-> "Shutdown"]) ELSE queue
    /\ handles' = FALSE
    /\ outbox' = <<>>
    /\ writer' = "aborted"
    /\ stask' = "aborted"
    /\ sup' = "connect"
    /\ sleepLeft' = 0
    /\ UNCHANGED <<engine, epc, state, sink, shared, finished, now, io,
                   sinceStop, muteGain, pending, fixed, log, pub,
                   obsPlaying, risen, obsTime, lastSent, attempt,
                   store>>

\* the return of run_audio_client as it would be without player.shutdown()
SocketClosed_NoShutdown ==
    /\ sup = "session"
    /\ handles' = FALSE
    /\ outbox' = <<>>
    /\ writer' = "aborted"
    /\ stask' = "aborted"
    /\ sup' = "sleep"
    /\ sleepLeft' = ReconnectDelay
    /\ UNCHANGED <<engine, epc, state, sink, shared, finished, queue, now,
                   io, sinceStop, muteGain, pending, fixed, log, pub,
                   obsPlaying, risen, obsTime, lastSent, attempt,
                   store>>

\* lines 289-314 and 126-136: the socket yields None, a Close frame or an
\* error; the read loop ends, the engine is sent Shutdown, the three tasks
\* are aborted, run_audio_client returns (dropping the Engine Handle and
\* the outbound channel) and the supervisor starts its delay
SocketClosed ==
    /\ sup = "session"
    /\ queue' = IF engine \in {"start", "running"}
                THEN Append(queue, [tag |-> "Shutdown"]) ELSE queue
    /\ handles' = FALSE
    /\ outbox' = <<>>
    /\ writer' = "aborted"
    /\ stask' = "aborted"
    /\ sup' = "sleep"
    /\ sleepLeft' = ReconnectDelay
    /\ UNCHANGED <<engine, epc, state, sink, shared, finished, now, io,
                   sinceStop, muteGain, pending, fixed, log, pub,
                   obsPlaying, risen, obsTime, lastSent, attempt,
                   store>>

\* the connection as it would be if the state_task kept the values of the
\* session before
ConnectOk_KeepsPublisher ==
    /\ sup = "connect"
    /\ engine' = "start"
    /\ epc' = "recv"
    /\ state' = InternalStateDefault
    /\ sink' = None
    /\ shared' = AudioStateDefault
    /\ finished' = FALSE
    /\ queue' = <<>>
    /\ io' = "none"
    /\ sinceStop' = FALSE
    /\ muteGain' = None
    /\ pending' = FALSE
    /\ fixed' = FixedInit
    /\ handles' = TRUE
    /\ pub' = pub
    /\ outbox' = <<"audio_controller_register">>
    /\ obsPlaying' = FALSE
    /\ risen' = FALSE
    /\ obsTime' = 0
    /\ lastSent' = None
    /\ sup' = "session"
    /\ writer' = "running"
    /\ stask' = "running"
    /\ attempt' = "ok"
    /\ UNCHANGED <<now, log, sleepLeft, store>>

\* lines 144-181: the connection is made; a new engine and a new outbound
\* channel are created, the registration is queued and the tasks spawned.
\* The engine of the session before, which was sent Shutdown and has lost
\* its handles, is followed no further.
ConnectOk ==
    /\ sup = "connect"
    /\ engine' = "start"
    /\ epc' = "recv"
    /\ state' = InternalStateDefault
    /\ sink' = None
    /\ shared' = AudioStateDefault
    /\ finished' = FALSE
    /\ queue' = <<>>
    /\ io' = "none"
    /\ sinceStop' = FALSE
    /\ muteGain' = None
    /\ pending' = FALSE
    /\ fixed' = FixedInit
    /\ handles' = TRUE
    /\ pub' = PublisherInit
    /\ outbox' = <<"audio_controller_register">>
    /\ obsPlaying' = FALSE
    /\ risen' = FALSE
    /\ obsTime' = 0
    /\ lastSent' = None
    /\ sup' = "session"
    /\ writer' = "running"
    /\ stask' = "running"
    /\ attempt' = "ok"
    /\ UNCHANGED <<now, log, sleepLeft, store>>

\* lines 144-146 and 130-136: connect_async fails, run_audio_client returns
\* the error before anything is created or queued, and the supervisor
\* starts its delay
ConnectFail ==
    /\ sup = "connect"
    /\ sup' = "sleep"
    /\ sleepLeft' = ReconnectDelay
    /\ attempt' = "failed"
    /\ UNCHANGED <<engine, epc, state, sink, shared, finished, queue, now,
                   io, sinceStop, muteGain, pending, fixed, log, pub,
                   outbox, obsPlaying, risen, obsTime, lastSent, handles,
                   writer, stask,
                   store>>

\* line 136: a second of the delay passes; after the last one the loop
\* comes round to the next attempt
SleepSecond ==
    /\ sup = "sleep"
    /\ sleepLeft > 0
    /\ sleepLeft' = sleepLeft - 1
    /\ sup' = IF sleepLeft = 1 THEN "connect" ELSE "sleep"
    /\ UNCHANGED <<engine, epc, state, sink, shared, finished, queue, now,
                   io, sinceStop, muteGain, pending, fixed, log, pub,
                   outbox, obsPlaying, risen, obsTime, lastSent, handles,
                   writer, stask, attempt,
                   store>>

\* the state right after run_audio_client has connected, created the
\* engine and queued the registration (websocket_client.rs lines 144-167),
\* with the position history f and the channel log l
Start(f, l) ==
    /\ engine = "start"
    /\ epc = "recv"
    /\ state = InternalStateDefault
    /\ sink = None
    /\ shared = AudioStateDefault
    /\ finished = FALSE
    /\ queue = <<>>
    /\ now = 0
    /\ io = "none"
    /\ sinceStop = FALSE
    /\ muteGain = None
    /\ pending = FALSE
    /\ fixed = f
    /\ log = l
    /\ handles = TRUE
    /\ pub = PublisherInit
    /\ outbox = <<"audio_controller_register">>
    /\ obsPlaying = FALSE
    /\ risen = FALSE
    /\ obsTime = 0
    /\ lastSent = None
    /\ sup = "session"
    /\ sleepLeft = 0
    /\ writer = "running"
    /\ stask = "running"
    /\ attempt = "first"

Init == Start(FixedInit, None) /\ store = None

\* the engine under the transport commands, with time passing
Next ==
    \/ EngineStart
    \/ EngineNoDevice
    \/ Timeout
    \/ CmdLoad
    \/ CmdPlay
    \/ CmdPause
    \/ CmdStop
    \/ CmdSeekNoFile
    \/ CmdSeek
    \/ CmdSeekPanic
    \/ SeekIo
    \/ CmdMarkFinished
    \/ CmdShutdown
    \/ Tick
    \/ SinkExhausted
    \/ Send(TransportCommands)

Spec == Init /\ [][Next]_vars

\* the engine under the gain commands
GainNext ==
    \/ EngineStart
    \/ Timeout
    \/ CmdSetVolume
    \/ CmdSetMuted
    \/ CmdLoad
    \/ CmdStop
    \/ CmdSeekNoFile
    \/ CmdSeek
    \/ SeekIo
    \/ Tick
    \/ SinkExhausted
    \/ Send(GainCommands)

GainSpec == Init /\ [][GainNext]_vars

\* the engine with a track of known duration, its position followed from
\* Load, Seek and Pause
ClockCommands ==
    [tag : {"Load"}, path : {"track.mp3"}]
    \cup [tag : {"Play", "Pause", "Stop", "MarkFinished"}]
    \cup [tag : {"Seek"}, position : {1, TrackLen + 1}]

ClockInit ==
    Start([FixedInit EXCEPT !.byLsp = Some(0)], None) /\ store = None

ClockNext ==
    \/ EngineStart
    \/ Timeout
    \/ CmdLoad
    \/ CmdPlay
    \/ CmdPause
    \/ CmdStop
    \/ CmdSeekNoFile
    \/ CmdSeek
    \/ SeekIo
    \/ CmdMarkFinished
    \/ Tick
    \/ SinkExhausted
    \/ Send(ClockCommands)

ClockSpec == ClockInit /\ [][ClockNext]_vars

\* the engine driven through its handle, every command logged: at most
\* MaxSent commands, all of which may wait in the channel together
HandleCommands ==
    [tag : {"Load"}, path : {"track.mp3"}]
    \cup [tag : {"Play", "Pause", "Shutdown"}]
    \cup [tag : {"Seek"}, position : {1}]

CanSend == Len(Unwrap(log).sent) < MaxSent

HandleInit == Start(FixedInit, Some(LogInit)) /\ store = None

HandleNext ==
    \/ EngineStart
    \/ Timeout
    \/ Disconnected
    \/ CmdLoad
    \/ CmdPlay
    \/ CmdPause
    \/ CmdSeekNoFile
    \/ CmdSeek
    \/ SeekIo
    \/ CmdShutdown
    \/ (CanSend /\ SendUpTo(HandleCommands, MaxSent))
    \/ (CanSend /\ SendRefused(HandleCommands))
    \/ DropHandles

HandleSpec == HandleInit /\ [][HandleNext]_vars

\* one session of the bridge: the engine, the Reader forwarding the
\* server's commands, the state_task and the write_task
EngineStep ==
    \/ EngineStart
    \/ Timeout
    \/ CmdLoad
    \/ CmdPlay
    \/ CmdPause
    \/ CmdStop
    \/ CmdMarkFinished

BridgeNext ==
    \/ EngineStep
    \/ Tick
    \/ SinkExhausted
    \/ Send(ServerCommands)
    \/ PublisherTick
    \/ Writer

\* the engine thread, the state_task (a 100 ms interval) and the
\* write_task each keep running
BridgeSpec ==
    /\ Init
    /\ [][BridgeNext]_vars
    /\ WF_vars(EngineStep)
    /\ WF_vars(PublisherTick)
    /\ WF_vars(Writer)

\* the supervisor and its sessions, one after the other
SessionEngine ==
    \/ EngineStart
    \/ Timeout
    \/ CmdLoad
    \/ CmdPause
    \/ CmdShutdown

SessionNext ==
    \/ SessionEngine
    \/ Reader
    \/ StateTask
    \/ StateTaskBreak
    \/ WriteTask
    \/ WriterFail
    \/ PingTask
    \/ SocketClosed
    \/ ConnectOk
    \/ ConnectFail
    \/ SleepSecond

\* the engine thread and the tasks keep running, the delay passes and a
\* connection attempt ends one way or the other; what the server and the
\* socket do is up to them
SessionSpec ==
    /\ Init
    /\ [][SessionNext]_vars
    /\ WF_vars(SessionEngine)
    /\ WF_vars(StateTask \/ StateTaskBreak)
    /\ WF_vars(WriteTask)
    /\ WF_vars(ConnectOk \/ ConnectFail)
    /\ WF_vars(SleepSecond)

\* the supervisor and its sessions, with tracks that play to their end and
\* are reported finished
ReconnectNext ==
    \/ SessionNext
    \/ CmdMarkFinished
    \/ SinkExhausted

ReconnectSpec == Init /\ [][ReconnectNext]_vars

\* the engine loading tracks from every kind of state: idle, playing,
\* paused, stopped, finished, holding an error, muted, at another volume
LoadCommands ==
    [tag : {"Load"}, path : {"track.mp3"}]
    \cup [tag : {"Pause", "Stop", "MarkFinished"}]
    \cup [tag : {"SetMuted"}, muted : BOOLEAN]
    \cup [tag : {"SetVolume"}, level : {50}]

LoadNext ==
    \/ EngineStart
    \/ Timeout
    \/ CmdLoad
    \/ CmdPause
    \/ CmdStop
    \/ CmdMarkFinished
    \/ CmdSetMuted
    \/ CmdSetVolume
    \/ Tick
    \/ SinkExhausted
    \/ Send(LoadCommands)

LoadSpec == Init /\ [][LoadNext]_vars

\* the engine pausing and resuming a track, every command logged, with
\* time passing
PauseCommands ==
    [tag : {"Load"}, path : {"track.mp3"}]
    \cup [tag : {"Play", "Pause", "MarkFinished"}]

PauseNext ==
    \/ EngineStart
    \/ Timeout
    \/ CmdLoad
    \/ CmdPlay
    \/ CmdPause
    \/ CmdMarkFinished
    \/ Tick
    \/ SinkExhausted
    \/ (CanSend /\ Send(PauseCommands))

PauseSpec == HandleInit /\ [][PauseNext]_vars

\* one session whose read loop takes text messages, well-formed or not,
\* off the socket
InboundNext ==
    \/ EngineStart
    \/ Timeout
    \/ CmdLoad
    \/ CmdPlay
    \/ CmdPause
    \/ ReadText
    \/ StateTask
    \/ WriteTask

InboundSpec == HandleInit /\ [][InboundNext]_vars

\* the engine publishing snapshots while two threads read them
ReadNext ==
    \/ EngineStart
    \/ UpdateLock
    \/ UpdateFirst
    \/ UpdateRest
    \/ \E r \in Readers : GetLock(r)
    \/ \E r \in Readers : GetFirst(r)
    \/ \E r \in Readers : GetRest(r)

\* as Init, with the lock and its holders followed
ReadInit == Start(FixedInit, None) /\ store = Some(StoreInit)

ReadSpec == ReadInit /\ [][ReadNext]_vars

\* the engine playing, pausing and resuming tracks that run out, while a
\* reader, the state_task, calls get_state() and is_finished() in turn
Observer == "r1"

ObserveCommands ==
    [tag : {"Load"}, path : {"track.mp3"}] \cup [tag : {"Play", "Pause"}]

ObserveNext ==
    \/ EngineStart
    \/ Timeout
    \/ CmdLoad
    \/ CmdPlay
    \/ CmdPause
    \/ SinkExhausted
    \/ Send(ObserveCommands)
    \/ ObserveState(Observer)
    \/ ObserveFinished(Observer)

ObserveSpec == ReadInit /\ [][ObserveNext]_vars

\* the engine loading and seeking while the state_task reports its
\* snapshots
LoadingCommands ==
    [tag : {"Load"}, path : Paths] \cup [tag : {"Seek"}, position : {1}]

LoadingNext ==
    \/ EngineStart
    \/ Timeout
    \/ CmdLoad
    \/ CmdSeekNoFile
    \/ CmdSeek
    \/ SeekIo
    \/ Send(LoadingCommands)
    \/ PublisherTick
    \/ Writer

LoadingSpec == Init /\ [][LoadingNext]_vars

\* the engine under every kind of command
ErrorCommands ==
    [tag : {"Load"}, path : {"track.mp3"}]
    \cup [tag : {"Play", "Pause", "Stop", "MarkFinished"}]
    \cup [tag : {"Seek"}, position : {1}]
    \cup [tag : {"SetVolume"}, level : {50}]
    \cup [tag : {"SetMuted"}, muted : BOOLEAN]

ErrorNext ==
    \/ EngineStart
    \/ Timeout
    \/ CmdLoad
    \/ CmdPlay
    \/ CmdPause
    \/ CmdStop
    \/ CmdSeekNoFile
    \/ CmdSeek
    \/ SeekIo
    \/ CmdSetVolume
    \/ CmdSetMuted
    \/ CmdMarkFinished
    \/ Send(ErrorCommands)

ErrorSpec == Init /\ [][ErrorNext]_vars

\* the engine thread with and without an output device, driven through
\* its handle with every command logged; nothing ends a thread that has
\* entered its loop
DeviceCommands ==
    [tag : {"Load"}, path : {"track.mp3"}]
    \cup [tag : {"Play", "Pause"}]
    \cup [tag : {"SetVolume"}, level : {50}]

DeviceNext ==
    \/ EngineStart
    \/ EngineNoDevice
    \/ Timeout
    \/ CmdLoad
    \/ CmdPlay
    \/ CmdPause
    \/ CmdSetVolume
    \/ (CanSend /\ SendUpTo(DeviceCommands, MaxSent))
    \/ (CanSend /\ SendRefused(DeviceCommands))

DeviceSpec == HandleInit /\ [][DeviceNext]_vars

(***************************************************************************)
(* Properties                                                              *)
(***************************************************************************)
\* this step is the engine taking a command with this tag off the channel
Processed(tag) == Receives(tag) /\ Len(queue') < Len(queue)

Failures == {"open", "decode", "sink"}

\* C1: every published snapshot of a track with known duration D > 0 has
\* 0 <= current_time <= D, whatever Play, Pause and Seek commands and
\* whatever wall-clock time came before it.
C1_PositionWithinDuration ==
    (IsSome(state.current_path) /\ shared.duration > 0) =>
        /\ 0 <= shared.current_time
        /\ shared.current_time <= shared.duration

\* this step puts an audio_finished message on the outbound channel
EmitsFinished ==
    /\ Len(outbox') > Len(outbox)
    /\ outbox'[Len(outbox) + 1] = "audio_finished"

\* C2: the state_task sends audio_finished only if, since the audio_finished
\* it sent before (or since the session began), it has read a snapshot with
\* is_playing true right after one with is_playing false.
C2_FinishedOncePerRise == [][EmitsFinished => risen]_vars

\* audio_finished was sent and written, and the finished flag is still up
\* because MarkFinished is still in the channel: the state_task ticks again
C2_RepeatedDetectionWitness ==
    /\ pub.finished_sent
    /\ ~risen
    /\ finished
    /\ queue # <<>> /\ Head(queue).tag = "MarkFinished"
    /\ outbox = <<>>

\* the track has played to its end and the engine reports it: the sink ran
\* out while playing, the finished flag is up, the published position is the
\* track's duration (so that the snapshot no longer changes with time)
PlayedToEnd ==
    /\ finished
    /\ pending
    /\ shared.is_playing
    /\ shared.duration > 0
    /\ shared.current_time = shared.duration

\* C3: whenever the loaded track's sink has run out while playing (here: at
\* the track's end), the state_task eventually sends audio_finished for it,
\* unless a command withdraws the engine's report first.
C3_CompletionNotified == PlayedToEnd ~> (~pending \/ ~finished)

\* C4: with a track loaded, processing Seek(t) publishes current_time =
\* clamp(t, 0, D) (max(t, 0) when the duration is unknown) before the file
\* is re-opened, and the re-open, decode and sink steps leave the published
\* position as it is, however they end.
C4_SeekPublishesTarget ==
    /\ [][(Processed("Seek") /\ IsSome(state.current_path)) =>
            /\ shared'.current_time = SeekTarget(state, Head(queue).position)
            /\ epc' = "seek_io"]_vars
    /\ [][(epc = "seek_io" /\ epc' = "recv") =>
            shared'.current_time = shared.current_time]_vars

\* C5: Play with no track loaded (no sink, current_path unset) is a no-op:
\* is_playing stays false, start_time stays unset, current_time is unchanged.
C5_PlayWithoutTrackIsNoop ==
    [][(Processed("Play") /\ ~IsSome(sink) /\ ~IsSome(state.current_path)) =>
          /\ ~state'.is_playing
          /\ ~shared'.is_playing
          /\ ~IsSome(state'.start_time)
          /\ state'.current_time = state.current_time]_vars

\* C6: the volume held by the engine and the volume of every published
\* snapshot are within [0, 100].
C6_VolumeWithinRange ==
    /\ 0 <= state.volume /\ state.volume <= 100
    /\ 0 <= shared.volume /\ shared.volume <= 100

\* C7: whenever the engine is muted and a sink exists, the sink's gain is 0.
C7_MutedGainZero ==
    (state.is_muted /\ IsSome(sink)) => Unwrap(sink).gain = 0

\* a muted engine holding a sink, after a SetVolume(150)
C7_MutedSinkWitness ==
    /\ state.is_muted
    /\ IsSome(sink)
    /\ state.volume = 150
    /\ io = "ok"

\* C8: SetMuted(false) processed right after SetMuted(true) leaves the
\* stored volume as it was and gives the sink the gain it had before muting.
C8_MuteToggleRestoresGain ==
    [][(Processed("SetMuted") /\ ~Head(queue).muted /\ IsSome(muteGain)) =>
          /\ state'.volume = state.volume
          /\ IsSome(sink')
          /\ Unwrap(sink').gain = Unwrap(muteGain)]_vars

\* C9: a Load whose open, decode or sink creation fails publishes a snapshot
\* with error set and is_loading false, and leaves the engine running in its
\* receive loop with the rest of the channel intact.
C9_FailedLoadRecovers ==
    [][(Processed("Load") /\ io' \in Failures) =>
          /\ IsSome(shared'.error)
          /\ ~shared'.is_loading
          /\ engine' = "running"
          /\ epc' = "recv"
          /\ queue' = Tail(queue)]_vars

\* after a failed Load the engine is receiving, with a command to take
C9_FailedLoadWitness ==
    /\ io \in Failures
    /\ IsSome(shared.error)
    /\ ~shared.is_loading
    /\ Receives("Play")

\* C10: processing Stop publishes current_time 0, and a Seek processed after
\* a Stop with no Load in between changes neither the engine's state, nor
\* the sink, nor the published snapshot and flag.
C10_StopThenSeekIsNoop ==
    /\ [][Processed("Stop") => shared'.current_time = 0]_vars
    /\ [][(Processed("Seek") /\ sinceStop) =>
            UNCHANGED <<engine, epc, state, sink, shared, finished>>]_vars

\* a Seek was processed after a Stop with no Load in between
C10_SeekAfterStopWitness ==
    /\ sinceStop
    /\ io = "nofile"
    /\ shared.current_time = 0

\* this step puts an audio_state_update message on the outbound channel
EmitsUpdate ==
    /\ Len(outbox') > Len(outbox)
    /\ outbox'[Len(outbox')] = "audio_state_update"

\* the snapshot agrees with the last update sent in every field that the
\* update carries, but current_time and error
SameButTime(st, last) ==
    /\ st.is_playing = last.is_playing
    /\ st.duration = last.duration
    /\ st.volume = last.volume
    /\ st.is_muted = last.is_muted
    /\ st.is_loading = last.is_loading

\* C11: a tick of the state_task that reads a snapshot equal to the last
\* update sent in isPlaying, duration, volume, isMuted and isLoading, and
\* within 0.05 s of its current_time, sends no audio_state_update; a tick
\* that reads a current_time more than 0.05 s away from that of the last
\* update sent (not of the last snapshot read) sends one.
C11_DebounceAgainstLastSent ==
    [][(PublisherTick /\ IsSome(lastSent)) =>
          LET last == Unwrap(lastSent)
              near == Abs(shared.current_time - last.current_time) <= TimeEps
          IN /\ (SameButTime(shared, last) /\ near) => ~EmitsUpdate
             /\ ~near => (EmitsUpdate /\ lastSent' = Some(Payload(shared)))]_vars

\* the state_task has read a snapshot 0.05 s ahead of the last update sent
\* and has sent nothing for it
C11_SuppressedWitness ==
    /\ IsSome(lastSent)
    /\ SameButTime(shared, Unwrap(lastSent))
    /\ obsTime = Unwrap(lastSent).current_time + TimeEps
    /\ shared.current_time = obsTime
    /\ outbox = <<>>

\* C12: a tick of the state_task that reads a snapshot differing from the
\* last update sent in isPlaying, duration, volume, isMuted, isLoading or
\* error sends an audio_state_update carrying that snapshot.
C12_FieldChangeEmits ==
    [][(PublisherTick /\ IsSome(lastSent)
            /\ (~SameButTime(shared, Unwrap(lastSent))
                    \/ Payload(shared).error # Unwrap(lastSent).error)) =>
          (EmitsUpdate /\ lastSent' = Some(Payload(shared)))]_vars

\* C13: the engine's state has is_playing true exactly when start_time is
\* set, after every command (failed Load, Seek while playing or paused, Play
\* with no track, MarkFinished, ...) and every tick.
C13_PlayingIffAnchored == state.is_playing <=> IsSome(state.start_time)

\* a Seek to position 1 was processed while the track was paused at 0
C13_SeekWhilePausedWitness ==
    /\ ~state.is_playing
    /\ ~IsSome(state.start_time)
    /\ IsSome(state.current_path)
    /\ state.pause_offset = 1
    /\ now = 0
    /\ io = "ok"

\* this step is the engine publishing a snapshot through sync_state or
\* through the immediate update of Seek
Publishes ==
    \/ Timeout
    \/ CmdLoad
    \/ CmdPlay
    \/ CmdPause
    \/ CmdStop
    \/ CmdSeek
    \/ CmdMarkFinished

\* a position clamped to a known duration
WithinDuration(position, duration) ==
    IF duration > 0 THEN Min(position, duration) ELSE position

C16_AppliedInSendOrder ==
    IsSome(log) =>
        LET l == Unwrap(log)
        IN /\ Len(l.applied) <= Len(l.sent)
           /\ \A i \in 1..Len(l.applied) : l.applied[i] = l.sent[i]

\* one command has been applied while two more wait in the channel
C16_QueuedBehindWitness ==
    /\ IsSome(log)
    /\ Len(Unwrap(log).applied) = 1
    /\ Len(queue) = 2
    /\ queue[1] # queue[2]
    /\ engine = "running"

\* the engine has taken a Shutdown off the channel
ShutdownApplied ==
    /\ IsSome(log)
    /\ \E i \in 1..Len(Unwrap(log).applied) :
          Unwrap(log).applied[i].tag = "Shutdown"

\* C20: processing Shutdown ends the engine and drops what is queued behind
\* it; from then on no command is applied, sends change nothing but the
\* caller's own record, and the published snapshot and the finished flag
\* stay as they are.
C20_InertAfterShutdown ==
    /\ [][Processed("Shutdown") =>
            (engine' = "exited" /\ queue' = <<>>
                /\ UNCHANGED <<shared, finished>>)]_vars
    /\ [][ShutdownApplied =>
            /\ UNCHANGED <<engine, state, sink, shared, finished, queue>>
            /\ Unwrap(log').applied = Unwrap(log).applied]_vars

\* after a Shutdown, a command that was queued behind it has been dropped
\* and a command sent later has been refused
C20_DroppedAndRefusedWitness ==
    /\ ShutdownApplied
    /\ engine = "exited"
    /\ Unwrap(log).refused = 1
    /\ Len(Unwrap(log).sent) = 3
    /\ Len(Unwrap(log).applied) = 1

\* this step is the engine meeting the outcome of the open, decode and
\* sink-creation steps of a Load or of a Seek
LoadOutcome == Processed("Load")

SeekOutcome == engine = "running" /\ epc = "seek_io" /\ epc' = "recv"

\* C17: every failure to open the file, decode it or create the sink, met
\* while processing a Load or a Seek, is recorded in the engine's error field
\* and in the error of the published snapshot.
C17_FailureRecorded ==
    [][((LoadOutcome \/ SeekOutcome) /\ io' \in Failures) =>
            (IsSome(state'.error) /\ IsSome(shared'.error))]_vars

\* C18: once started, the engine loop ends only by processing Shutdown or
\* because every sender of its channel is gone and the channel is empty; no
\* other outcome of a command ends it.
C18_StopsOnlyOnShutdownOrDrop ==
    [][(engine = "running" /\ engine' # "running") =>
            (Processed("Shutdown") \/ (~handles /\ queue = <<>>))]_vars

\* this step is the end of a session, a connection attempt that fails, or
\* any connection attempt
SessionEnds == sup = "session" /\ sup' # "session"

AttemptFails == sup = "connect" /\ sup' = "sleep"

Attempts == sup = "connect" /\ sup' # "connect"

\* after a session ends or an attempt fails the supervisor waits
\* ReconnectDelay seconds, second by second, then makes one attempt, and
\* never makes an attempt that no full delay precedes; this goes on for ever
ReconnectsAfterDelay ==
    /\ [][(SessionEnds \/ AttemptFails) =>
            (sup' = "sleep" /\ sleepLeft' = ReconnectDelay)]_vars
    /\ [][(sup = "sleep" /\ ~SessionEnds /\ ~AttemptFails) =>
            \/ UNCHANGED <<sup, sleepLeft>>
            \/ /\ sleepLeft' = sleepLeft - 1
               /\ sup' = IF sleepLeft' = 0 THEN "connect" ELSE "sleep"]_vars
    /\ [][Attempts => (sleepLeft = 0 /\ sup' \in {"session", "sleep"})]_vars
    /\ (sup = "sleep") ~> (sup = "connect")
    /\ (sup = "connect") ~> (sup # "connect")

\* C15 as stated: the supervisor reconnects after the fixed delay, for ever,
\* and every connection attempt, failed ones included, leaves
\* audio_controller_register on the outbound channel.
C15_EveryAttemptRegisters ==
    /\ ReconnectsAfterDelay
    /\ [][Attempts =>
            (outbox' # <<>>
                /\ Head(outbox') = "audio_controller_register")]_vars

\* C15: the supervisor reconnects after the fixed delay, for ever, and
\* every attempt whose connection is made queues audio_controller_register
\* as the first message of the new session, for a new engine.
C15_ConnectedAttemptRegisters ==
    /\ ReconnectsAfterDelay
    /\ [][(Attempts /\ ~AttemptFails) =>
            /\ outbox' = <<"audio_controller_register">>
            /\ engine' = "start"
            /\ shared' = AudioStateDefault]_vars
    /\ [][AttemptFails => UNCHANGED outbox]_vars

\* a session that a reconnection opened, its registration not yet written
C15_ReconnectedWitness ==
    /\ sup = "session"
    /\ attempt = "ok"
    /\ outbox = <<"audio_controller_register">>

\* C19: once the write_task has stopped on a failed write, the session
\* ends (the read loop ends, the engine is sent Shutdown, the tasks are
\* aborted and the supervisor goes on to reconnect), whatever the socket's
\* read side does.
C19_WriterFailureEndsSession ==
    (sup = "session" /\ writer = "stopped") ~> (sup # "session")

\* C21: every value get_state() returns is one whole publication (the
\* default AudioState the store is created with counting as the first), and
\* the publications one reader is returned never go back in order.
C21_ReadsWholeSnapshots ==
    /\ [](\A r \in Readers :
            /\ Unwrap(store).idx[r] \in 1..Len(Unwrap(store).pubs)
            /\ Unwrap(store).got[r]
                    = Unwrap(store).pubs[Unwrap(store).idx[r]])
    /\ [][\A r \in Readers :
            Unwrap(store').idx[r] >= Unwrap(store).idx[r]]_vars

\* both readers hold the lock at once, one of them having been returned
\* the second publication, while the store already holds the third
C21_ConcurrentReadersWitness ==
    /\ IsSome(store)
    /\ \A r \in Readers : Unwrap(store).reading[r] # "idle"
    /\ \E r \in Readers :
          /\ Unwrap(store).idx[r] = 2
          /\ Unwrap(store).got[r] # AudioStateDefault
    /\ Len(Unwrap(store).pubs) = 3
    /\ Unwrap(store).pubs[3] # Unwrap(store).pubs[2]

\* this step ends the processing of a command other than Shutdown, or is
\* a tick (a timeout of the loop)
CommandOrTickDone ==
    \/ Timeout
    \/ SeekOutcome
    \/ CmdSeekNoFile
    \/ \E tag \in {"Load", "Play", "Pause", "Stop", "MarkFinished"} :
          Processed(tag)

\* C22: after every processed command and every tick the published finished
\* flag says whether there is a sink, it is exhausted and is_playing holds;
\* so too after a Seek, which replaces the sink.
C22_FinishedFlagCurrent ==
    [][CommandOrTickDone => (finished' = IsFinished(state', sink'))]_vars

\* the commands that the texts of a sequence stand for, in order
RECURSIVE Forwarded(_)
Forwarded(texts) ==
    IF texts = <<>> THEN <<>>
    ELSE LET cmd == ParseCommand(Head(texts))
         IN (IF IsSome(cmd) THEN <<Unwrap(cmd)>> ELSE <<>>)
            \o Forwarded(Tail(texts))

\* this step is the read loop taking a text that does not parse
DropsText ==
    /\ IsSome(log)
    /\ Len(Unwrap(log').read) > Len(Unwrap(log).read)
    /\ ~IsSome(ParseCommand(Unwrap(log').read[Len(Unwrap(log').read)]))

\* C23: a text message that is not one of the seven commands is dropped:
\* nothing is sent to the engine, the session and its tasks go on, and the
\* commands sent to the engine are always the well-formed messages read so
\* far, in arrival order.
C23_MalformedDropped ==
    /\ [][DropsText => UNCHANGED <<queue, engine, sup, writer, stask>>]_vars
    /\ [](Unwrap(log).sent = Forwarded(Unwrap(log).read))

\* a malformed text was read between two commands, both of which the engine
\* has taken, and the session is still up
C23_ForwardedAroundMalformedWitness ==
    /\ IsSome(log)
    /\ Len(Unwrap(log).read) = 3
    /\ ~IsSome(ParseCommand(Unwrap(log).read[2]))
    /\ Len(Unwrap(log).applied) = 2
    /\ sup = "session"
    /\ stask = "running"
    /\ writer = "running"

\* this step is the engine processing a Load that fails
LoadFails == LoadOutcome /\ io' \in Failures

\* the fields of the engine's state that a failed Load is to leave alone,
\* current_time apart
KeptByFailedLoad(st) ==
    <<st.is_playing, st.duration, st.start_time, st.pause_offset,
      st.current_path, st.volume, st.is_muted, st.pre_mute_volume>>

\* C24 as stated: a failed Load leaves is_playing, current_time, duration,
\* start_time, pause_offset, current_path, volume, is_muted and the sink
\* exactly as they were.
C24_FailedLoadKeepsAll ==
    [][LoadFails =>
            /\ KeptByFailedLoad(state') = KeptByFailedLoad(state)
            /\ state'.current_time = state.current_time
            /\ sink' = sink]_vars

\* C24: a failed Load sets error and leaves is_loading false; is_playing,
\* duration, start_time, pause_offset, current_path, volume, is_muted and
\* the sink are as they were, and current_time is what any tick at that
\* moment would make it.
C24_FailedLoadKeepsPlayback ==
    [][LoadFails =>
            /\ KeptByFailedLoad(state') = KeptByFailedLoad(state)
            /\ state'.current_time = SyncTime(state, now).current_time
            /\ sink' = sink
            /\ IsSome(state'.error)
            /\ ~state'.is_loading]_vars

\* a Load has failed while an earlier track was playing, and that track
\* plays on
C24_FailedLoadWhilePlayingWitness ==
    /\ IsSome(state.error)
    /\ state.is_playing
    /\ state.current_time > 0
    /\ IsSome(sink)
    /\ ~Unwrap(sink).paused

\* this step is the engine processing a Load that succeeds
LoadSucceeds == LoadOutcome /\ io' = "ok"

\* C25: whatever the state before, a successful Load leaves is_playing
\* true, current_time 0, pause_offset 0, start_time set, current_path the
\* path loaded, is_loading false and no error; the engine holds one sink,
\* new and unpaused, at gain 0 if muted and at the volume otherwise; volume
\* and is_muted are as before.
C25_SuccessfulLoadState ==
    [][LoadSucceeds =>
            /\ state'.is_playing
            /\ state'.current_time = 0
            /\ state'.pause_offset = 0
            /\ state'.start_time = Some(now)
            /\ state'.current_path = Some(Head(queue).path)
            /\ ~state'.is_loading
            /\ state'.error = None
            /\ shared' = AudioStateOf(state')
            /\ IsSome(sink')
            /\ ~Unwrap(sink').paused
            /\ ~Unwrap(sink').empty
            /\ Unwrap(sink').gain =
                    (IF state.is_muted THEN 0 ELSE state.volume)
            /\ state'.volume = state.volume
            /\ state'.is_muted = state.is_muted]_vars

\* a track loaded, later than the engine's start, while the engine was
\* muted and at half volume
C25_LoadedWhileMutedWitness ==
    /\ io = "ok"
    /\ now > 0
    /\ state.start_time = Some(now)
    /\ state.is_playing
    /\ state.is_muted
    /\ state.volume = 50
    /\ IsSome(sink)
    /\ Unwrap(sink).gain = 0

\* C26: no step of a Seek changes is_playing; a Seek of a loaded track
\* moves the position to its target, and when its re-open succeeds the
\* new sink is paused exactly if is_playing is false.
C26_SeekKeepsPlayState ==
    /\ [][(Processed("Seek") \/ SeekOutcome) =>
            state'.is_playing = state.is_playing]_vars
    /\ [][(Processed("Seek") /\ epc' = "seek_io") =>
            /\ state'.current_time = SeekTarget(state, Head(queue).position)
            /\ state'.pause_offset = state'.current_time]_vars
    /\ [][(SeekOutcome /\ io' = "ok") =>
            /\ IsSome(sink')
            /\ Unwrap(sink').paused <=> ~state'.is_playing]_vars

\* before any time has passed a paused track has been moved to position 1
\* by a Seek whose re-open succeeded, and its new sink is paused
C26_PausedSeekWitness ==
    /\ now = 0
    /\ io = "ok"
    /\ epc = "recv"
    /\ ~state.is_playing
    /\ state.pause_offset = 1
    /\ IsSome(sink)
    /\ Unwrap(sink).paused
    /\ ~Unwrap(sink).empty

\* this step is the engine processing a Seek whose re-open fails, or one
\* whose re-open succeeds
SeekFails == SeekOutcome /\ io' \in Failures

SeekSucceeds == SeekOutcome /\ io' = "ok"

\* C27: in Load and in Seek the sink the engine had is given up only for a
\* replacement that exists and has its source: a failure at any step
\* leaves the old sink as it was, neither stopped nor dropped, the first
\* part of a Seek does not touch it, and a success leaves the engine with
\* the one new sink.
C27_OldSinkKeptUntilReplaced ==
    /\ [][(LoadFails \/ SeekFails) => sink' = sink]_vars
    /\ [][(Processed("Seek") /\ engine' = "running") => sink' = sink]_vars
    /\ [][(LoadSucceeds \/ SeekSucceeds) =>
            /\ IsSome(sink')
            /\ ~Unwrap(sink').empty
            /\ Unwrap(sink').gain = SinkVolume(state')]_vars

\* the re-open of a Seek failed, no Load having failed before it, and the
\* sink that was playing plays on
C27_SeekFailedSinkKeptWitness ==
    /\ io \in Failures
    /\ epc = "recv"
    /\ state.error = None
    /\ state.is_playing
    /\ IsSome(sink)
    /\ ~Unwrap(sink).paused
    /\ ~Unwrap(sink).empty

\* the command the engine took last was a Pause
AfterPause ==
    /\ IsSome(log)
    /\ Unwrap(log).applied # <<>>
    /\ Unwrap(log).applied[Len(Unwrap(log).applied)].tag = "Pause"

\* C28: once Pause has been processed, current_time stays as it is through
\* ticks, wall time and a second Pause, and the Play that follows the Pause
\* goes on from exactly that position.
C28_PauseFreezesPosition ==
    /\ [][(AfterPause /\ (Timeout \/ Tick \/ Processed("Pause"))) =>
            state'.current_time = state.current_time]_vars
    /\ [][(AfterPause /\ Processed("Play")) =>
            /\ state'.current_time = state.current_time
            /\ state'.pause_offset = state.current_time]_vars

\* the command the engine took last was a MarkFinished
AfterMarkFinished ==
    /\ IsSome(log)
    /\ Unwrap(log).applied # <<>>
    /\ Unwrap(log).applied[Len(Unwrap(log).applied)].tag = "MarkFinished"

\* C29: MarkFinished leaves is_playing false, current_time at the
\* duration, start_time unset and pause_offset 0, and publishes that with
\* the finished flag down; a MarkFinished processed right after another
\* changes neither the engine's state nor what is published.
C29_MarkFinishedIdempotent ==
    /\ [][Processed("MarkFinished") =>
            /\ ~state'.is_playing
            /\ state'.current_time = state.duration
            /\ state'.start_time = None
            /\ state'.pause_offset = 0
            /\ shared' = AudioStateOf(state')
            /\ ~finished']_vars
    /\ [][(AfterMarkFinished /\ Processed("MarkFinished")) =>
            UNCHANGED <<state, sink, shared, finished>>]_vars

\* MarkFinished has been processed twice in a row for a track whose sink
\* had run out, some time after the track was loaded
C29_TwiceInARowWitness ==
    /\ AfterMarkFinished
    /\ Len(Unwrap(log).applied) = 3
    /\ Unwrap(log).applied[2].tag = "MarkFinished"
    /\ now > 0
    /\ state.current_time = TrackLen
    /\ IsSome(sink)
    /\ Unwrap(sink).empty
    /\ ~finished

\* the registration is waiting in this outbound channel
HasRegister(box) ==
    \E i \in DOMAIN box : box[i] = "audio_controller_register"

\* this step is the write_task taking a message to write it
WritesOne ==
    /\ sup = "session" /\ sup' = "session"
    /\ writer = "running" /\ writer' = "running"
    /\ Len(outbox') = Len(outbox) - 1

\* C30: a session that connects starts with audio_controller_register alone
\* on its outbound channel; the registration is never behind another
\* message there, and as long as it waits it is what the write_task writes
\* next: no update, finished notice or ping of the session goes out
\* before it.
C30_RegistrationFirst ==
    /\ [][(sup = "connect" /\ sup' = "session") =>
            outbox' = <<"audio_controller_register">>]_vars
    /\ [](\A i \in DOMAIN outbox :
            outbox[i] = "audio_controller_register" => i = 1)
    /\ [][(WritesOne /\ HasRegister(outbox)) => ~HasRegister(outbox')]_vars

\* in a session opened by a reconnection the registration has been
\* written, and a ping and a state update queued behind it still wait
C30_RegisteredBeforeOthersWitness ==
    /\ sup = "session"
    /\ attempt = "ok"
    /\ writer = "running"
    /\ ~HasRegister(outbox)
    /\ Len(outbox) = 2

\* the engine thread has ended, or a Shutdown waits for it in its channel
EngineTold ==
    \/ engine \in {"exited", "panicked"}
    \/ \E i \in DOMAIN queue : queue[i].tag = "Shutdown"

\* this step opens a session: a connection attempt that succeeds
SessionBegins == sup # "session" /\ sup' = "session"

\* C31: sessions follow one another: a session begins only from the
\* supervisor's connection attempt, which nothing but the full delay after
\* the end of the session before leads to.  When a session ends its engine
\* is sent Shutdown (or has ended already), its handle is dropped and its
\* tasks are aborted, all in that step; between sessions the tasks do
\* nothing and the engine is sent nothing more; so the engine of the
\* session before has been told to shut down when the next one is created.
C31_OneSessionOneEngine ==
    /\ [][SessionEnds =>
            /\ EngineTold'
            /\ ~handles'
            /\ writer' = "aborted"
            /\ stask' = "aborted"
            /\ outbox' = <<>>
            /\ sup' = "sleep"]_vars
    /\ [](sup # "session" =>
            (EngineTold /\ ~handles
                /\ writer = "aborted" /\ stask = "aborted"))
    /\ [][(sup # "session" /\ sup' # "session") =>
            /\ UNCHANGED <<outbox, pub, lastSent, writer, stask, handles>>
            /\ queue' \in {queue, <<>>} \cup
                    (IF queue = <<>> THEN {} ELSE {Tail(queue)})]_vars
    /\ [][SessionBegins =>
            (sup = "connect" /\ sleepLeft = 0 /\ EngineTold
                /\ engine' = "start" /\ queue' = <<>> /\ handles')]_vars

\* the supervisor is about to connect again while the engine of the session
\* before still runs: a Load and the Shutdown behind it wait in its channel
C31_OldEngineToldWitness ==
    /\ sup = "connect"
    /\ attempt = "failed"
    /\ engine = "running"
    /\ Len(queue) = 2
    /\ queue[1].tag = "Load"
    /\ queue[2].tag = "Shutdown"

\* C32: every session that begins has a new engine in the default state (not
\* playing, current_time 0, duration 0, volume 100, unmuted, no error, no
\* track, no sink), with an empty channel, the default snapshot and the
\* finished flag down, and a state_task with its initial comparison values
\* and finished_sent false, whatever the session before left behind.
C32_NothingCarriedOver ==
    [][SessionBegins =>
            /\ engine' = "start"
            /\ state' = InternalStateDefault
            /\ sink' = None
            /\ queue' = <<>>
            /\ shared' = AudioStateDefault
            /\ ~finished'
            /\ pub' = PublisherInit
            /\ lastSent' = None
            /\ outbox' = <<"audio_controller_register">>]_vars

\* the supervisor is about to connect; the session before ended after its
\* track had finished and been reported, with a failed Load recorded since
C32_LeftoverWitness ==
    /\ sup = "connect"
    /\ pub.finished_sent
    /\ pub.prev_duration = TrackLen
    /\ IsSome(shared.error)
    /\ shared.current_time = TrackLen
    /\ IsSome(sink)
    /\ IsSome(lastSent)

\* C33: whenever is_playing is false and the engine holds a sink, that sink
\* is paused or has run out: the engine never reports not-playing while a
\* sink plays.  In particular a MarkFinished that the state_task sent for a
\* track that ended, processed after the Load of the next track, leaves the
\* new track as the Load left it.
C33_NotPlayingSinkSilent ==
    (~state.is_playing /\ IsSome(sink)) =>
        (Unwrap(sink).paused \/ Unwrap(sink).empty)

\* the snapshot agrees with the last update sent in every field, its
\* current_time to within 0.05 s
Agrees(st, last) ==
    /\ SameButTime(st, last)
    /\ Payload(st).error = last.error
    /\ Abs(st.current_time - last.current_time) <= TimeEps

\* C34: in a session that stays connected, either the published snapshot
\* keeps changing for ever, or from some time on the last
\* audio_state_update sent agrees with it in isPlaying, duration, volume,
\* isMuted, isLoading and error, and in currentTime to within 0.05 s; and an
\* audio_state_update is sent at least once.
C34_UpdatesCatchUp ==
    /\ \/ []<><<TRUE>>_shared
       \/ <>[](IsSome(lastSent) /\ Agrees(shared, Unwrap(lastSent)))
    /\ <>IsSome(lastSent)

\* C35: the gain of an unmuted sink is one function of the stored volume,
\* the one SetVolume applies, whichever of SetVolume, SetMuted(false), Load
\* and Seek set it last, for levels outside [0, 100] too.
C35_GainIsOneFunctionOfVolume ==
    (IsSome(sink) /\ ~state.is_muted) =>
        Unwrap(sink).gain = SetVolumeGain(state.volume)

\* C36: a reader that has called get_state() and then is_finished() has
\* never been returned a raised finished flag together with a snapshot
\* whose is_playing is false.
C36_FinishedOnlyWhilePlaying ==
    Unwrap(store).reading[Observer] = "idle" =>
        ~(Unwrap(store).fin[Observer]
            /\ ~Unwrap(store).got[Observer].is_playing)

\* C37: no published snapshot has is_loading true, and so no
\* audio_state_update carries isLoading true and the state_task never
\* records it: whenever the engine is between two commands, or between the
\* two parts of a Seek, is_loading is false in its state.
C37_NeverPublishedLoading ==
    /\ ~state.is_loading
    /\ ~shared.is_loading
    /\ ~pub.prev_is_loading
    /\ IsSome(lastSent) => ~Unwrap(lastSent).is_loading

\* an audio_state_update has been sent for a track that was loaded, then
\* met a failed Load, then was moved by a Seek
C37_LoadsAndSeekReportedWitness ==
    /\ IsSome(lastSent)
    /\ IsSome(Unwrap(lastSent).error)
    /\ Unwrap(lastSent).duration = TrackLen
    /\ Unwrap(lastSent).current_time = 1
    /\ io = "ok"

\* C38: the error field changes only when a Load is processed: a Load that
\* succeeds leaves it unset and a Load that fails sets it; processing Play,
\* Pause, Stop, Seek (both parts, however the re-open ends), SetVolume,
\* SetMuted or MarkFinished, and a tick, leave it as it is; and every
\* published snapshot carries the engine's error.
C38_ErrorKeptUntilLoad ==
    /\ [][~Processed("Load") => state'.error = state.error]_vars
    /\ [][Processed("Load") =>
            (IsSome(state'.error) <=> io' \in Failures)]_vars
    /\ [](shared.error = state.error)

\* the error of a failed Load is still published after the Stop that
\* followed the Load, and after the Seek and the Play that followed the Stop
C38_ErrorOutlivesCommandsWitness ==
    /\ IsSome(shared.error)
    /\ sinceStop
    /\ io = "nofile"
    /\ shared.is_playing

\* C39: when the output device cannot be opened the thread ends before its
\* loop: the handle is there all the same, no command is ever applied (what
\* was queued is dropped and what is sent later is lost), and the engine's
\* state, the snapshot (error unset) and the finished flag stay at their
\* defaults.
C39_NoDeviceInert ==
    /\ [][(engine = "start" /\ engine' = "exited") =>
            (handles' /\ UNCHANGED <<state, sink, shared, finished>>)]_vars
    /\ [](engine = "exited" =>
            /\ handles
            /\ Unwrap(log).applied = <<>>
            /\ queue = <<>>
            /\ state = InternalStateDefault
            /\ sink = None
            /\ shared = AudioStateDefault
            /\ ~finished)
    /\ [][engine = "exited" =>
            /\ engine' = "exited"
            /\ UNCHANGED <<state, sink, shared, finished, queue>>
            /\ Unwrap(log').applied = Unwrap(log).applied]_vars

\* without a device: of four commands sent, two were queued before the
\* thread ended and two were sent after it
C39_DroppedAndLostWitness ==
    /\ engine = "exited"
    /\ IsSome(log)
    /\ Len(Unwrap(log).sent) = 4
    /\ Unwrap(log).refused = 2
    /\ Unwrap(log).applied = <<>>

=============================================================================
